---- MODULE Spec2Model ----
(***************************************************************************)
(* The GoHealth EMR pipeline (src/src/Pipeline.py) as a state machine.     *)
(*                                                                         *)
(* The script runs top to bottom in one thread; pc names the block that    *)
(* runs next.  A DataFrame is a sequence of rows; a row is a record whose  *)
(* field idx is its pandas index label and whose field rid is the number   *)
(* of the input row it came from (rid is bookkeeping for the properties,   *)
(* the code never reads it).  Dates are day numbers.  applied records what *)
(* each rule application did and input keeps the sheets as they were read; *)
(* the code reads neither.                                                 *)
(***************************************************************************)
EXTENDS Integers, Sequences, FiniteSets, TLC

VARIABLES pc, patients_df, visits_df, labs_df, icd_df, visits_icd_col,
          quarantine, audit, applied, output, input

vars == <<pc, patients_df, visits_df, labs_df, icd_df, visits_icd_col,
          quarantine, audit, applied, output, input>>

(***************************************************************************)
(* Cells                                                                   *)
(***************************************************************************)
\* A missing cell of a text or number column (pandas NaN / None).
NaN == "<NaN>"
\* A missing cell of a datetime column (pandas NaT).
NaT == 0
\* A date cell whose text does not parse as a date.
BadDate == -1
\* pd.Timestamp.today(), as a day number.
Today == 3

\* Bounds of the input workbook: its rows over all sheets, and the rows of
\* a workbook whose reference sheet or diagnosis header is not the usual one.
MaxRows == 3
MaxConfigRows == 1

\* patient_id cells: the number 1 and the text "1".
PatientIdCells == {"int:1", "str:1"}
FirstNameCells == {" ann"}
LastNameCells == {"lee "}
DobCells == {BadDate, 2, 4}
VisitIdCells == {"V1", "V2"}
ProviderCells == {"P1"}
VisitDateCells == {1, 3}
IcdCells == {" a01", "Z99"}
TestNameCells == {NaN, "hba1c"}
TestValueCells == {NaN, "5.4"}

\* Header texts of the diagnosis column of the visit sheet.
VisitIcdHeaders == {"ICD_Code ", "dx_code"}

\* Reference sheets: header texts, and rows of cells under them.
UsualIcdSheet ==
    [columns |-> <<" Code", "Description">>,
     rows |-> << <<"A01 ", "Typhoid">>, <<NaN, "Unknown">> >>]

IcdSheets ==
    { UsualIcdSheet,
      [columns |-> <<"Description", "ICD10">>,
       rows |-> << <<"Typhoid", "a01">> >>],
      [columns |-> <<"dx", "Description">>,
       rows |-> << <<"A01", "Typhoid">> >>] }

(***************************************************************************)
(* Conversions of cells                                                    *)
(***************************************************************************)
\* str(x) of a cell: a number and the text of its digits give the same text.
Str(x) ==
    CASE x = "int:1" -> "1"
      [] x = "str:1" -> "1"
      [] x = "int:2" -> "2"
      [] x = "str:2" -> "2"
      [] x = NaN -> "nan"
      [] OTHER -> x

\* .astype(str).str.strip().str.title() of a name cell.
StripTitle(x) ==
    CASE x = NaN -> "Nan"
      [] x = " ann" -> "Ann"
      [] x = "lee " -> "Lee"
      [] OTHER -> x

\* .astype(str).str.upper() of a test_name cell (no strip).
Upper(x) ==
    CASE x = NaN -> "NAN"
      [] x = "hba1c" -> "HBA1C"
      [] x = "HbA1c" -> "HBA1C"
      [] OTHER -> x

\* .astype(str).str.strip().str.upper() of a code cell.
StripUpper(x) ==
    CASE x = NaN -> "NAN"
      [] x = " a01" -> "A01"
      [] x = "A01 " -> "A01"
      [] x = "a01" -> "A01"
      [] OTHER -> x

\* .str.strip().str.lower() of a header text.
StripLower(x) ==
    CASE x = " Code" -> "code"
      [] x = "ICD10" -> "icd10"
      [] x = "Description" -> "description"
      [] x = "ICD_Code " -> "icd_code"
      [] OTHER -> x

\* pd.to_datetime(..., errors="coerce"): what does not parse becomes NaT.
ToDatetime(x) == IF x = BadDate \/ x = NaT THEN NaT ELSE x

\* a < b on datetime cells: False when either side is NaT.
DateLt(a, b) == a # NaT /\ b # NaT /\ a < b

\* x.str[0] + "*****" of a cleaned name.
MaskName(x) ==
    CASE x = "Ann" -> "A*****"
      [] x = "Lee" -> "L*****"
      [] x = "Nan" -> "N*****"
      [] OTHER -> x

\* hashlib.sha256(s.encode()).hexdigest(), by its leading hex digits.
Sha256(s) ==
    CASE s = "1" -> "6b86b273ff34fce1"
      [] s = "2" -> "d4735e3a265e16ee"
      [] s = "nan" -> "9b2d5b4678781e53"
      [] OTHER -> s

(***************************************************************************)
(* DataFrames                                                              *)
(***************************************************************************)
Range(s) == {s[i] : i \in 1..Len(s)}

SeqsUpTo(S, n) == UNION {[1..k -> S] : k \in 0..n}

\* df[mask]: the rows for which the mask holds, labels kept.
Filter(df, Mask(_)) == SelectSeq(df, Mask)

Labels(df) == {df[i].idx : i \in 1..Len(df)}

\* A fresh RangeIndex (read_excel, merge, concat(ignore_index=True)).
ResetIndex(df) == [i \in 1..Len(df) |-> [df[i] EXCEPT !.idx = i - 1]]

DateCols == {"date_of_birth", "visit_date"}

IsNull(r, c) == IF c \in DateCols THEN r[c] = NaT ELSE r[c] = NaN


\* The positions of df whose row the mask (a test on the position) selects.
FilterPos(df, Mask(_)) ==
    LET ix == SelectSeq([i \in 1..Len(df) |-> i], Mask)
    IN  [k \in 1..Len(ix) |-> df[ix[k]]]

\* A row with the columns cols, the ones it lacks filled with a missing cell.
Align(r, cols) ==
    [c \in cols |-> IF c \in DOMAIN r THEN r[c]
                    ELSE IF c \in DateCols THEN NaT ELSE NaN]

\* pd.concat([a, b], ignore_index=True): union of the columns, fresh labels.
Concat(a, b) ==
    LET cols == UNION {DOMAIN r : r \in Range(a) \cup Range(b)}
    IN  ResetIndex([i \in 1..(Len(a) + Len(b)) |-> Align((a \o b)[i], cols)])

RECURSIVE Flatten(_)
Flatten(ss) == IF Len(ss) = 0 THEN <<>> ELSE Head(ss) \o Flatten(Tail(ss))

\* left.merge(right[[on] + take], on=on, how="left"): one output row per
\* match of a left row, one row of missing cells when it has none.
MergeLeft(left, right, on, take) ==
    ResetIndex(Flatten(
        [i \in 1..Len(left) |->
            LET m == Filter(right, LAMBDA x : x[on] = left[i][on])
            IN  IF Len(m) = 0
                THEN << left[i] @@ [c \in take |->
                                      IF c \in DateCols THEN NaT ELSE NaN] >>
                ELSE [k \in 1..Len(m) |-> left[i] @@ [c \in take |-> m[k][c]]]]))

\* df.drop(columns=cols)
DropColumns(df, cols) ==
    [i \in 1..Len(df) |-> [c \in (DOMAIN df[i]) \ cols |-> df[i][c]]]

\* A sheet as read: row i of the sheet gets label i - 1.
Frame(cells) ==
    [i \in 1..Len(cells) |-> cells[i] @@ [idx |-> i - 1, rid |-> i]]

(***************************************************************************)
(* Audit log and validation utilities                                      *)
(***************************************************************************)
\* audit_log appends one line to the log file.
audit_log(log, action, entity, details) ==
    Append(log, [action |-> action, entity |-> entity, details |-> details])

\* log_validation writing an entry only when rows were rejected.
log_validation_nonzero(log, entity, rule, count, severity) ==
    IF count = 0 THEN log
    ELSE audit_log(log, "VALIDATION", entity, <<rule, count, severity>>)

log_validation(log, entity, rule, count, severity) ==
    audit_log(log, "VALIDATION", entity, <<rule, count, severity>>)

\* quarantine_rows, its effect on the quarantine of the entity.
quarantine_concat(q, invalid_df, entity, rule, severity) ==
    IF Len(invalid_df) # 0
    THEN LET temp == [i \in 1..Len(invalid_df) |->
                         invalid_df[i] @@ [quarantine_rule |-> rule,
                                           severity |-> severity]]
         IN  [q EXCEPT ![entity] = Concat(@, temp)]
    ELSE q

\* quarantine_rows returning df with nothing dropped.
quarantine_rows_keeping(df, invalid_df) == df

\* quarantine_rows dropping by position the labels of the rejected rows.
quarantine_rows_by_position(df, invalid_df) ==
    FilterPos(df, LAMBDA i : (i - 1) \notin Labels(invalid_df))

\* quarantine_rows, the frame it returns: df.drop(invalid_df.index).
quarantine_rows(df, invalid_df) ==
    Filter(df, LAMBDA r : r.idx \notin Labels(invalid_df))

\* not_null_check, the rows it rejects.
not_null_invalid(df, cols) ==
    Filter(df, LAMBDA r : \E c \in cols : IsNull(r, c))

\* duplicate_check with keep="first": only the later rows of a tie.
duplicate_invalid_keep_first(df, cols) ==
    FilterPos(df, LAMBDA i : \E j \in 1..(i - 1) :
                                 \A c \in cols : df[j][c] = df[i][c])

\* duplicate_check, the rows it rejects: duplicated(subset=cols, keep=False).
duplicate_invalid(df, cols) ==
    FilterPos(df, LAMBDA i : \E j \in (1..Len(df)) \ {i} :
                                 \A c \in cols : df[j][c] = df[i][c])

\* What one rule application did, kept for the properties.
Applied(hist, entity, rule, severity, before, after, q, q2) ==
    Append(hist, [entity |-> entity, rule |-> rule, severity |-> severity,
                  before |-> Len(before), after |-> Len(after),
                  quarantined |-> Len(q2[entity]) - Len(q[entity])])

(***************************************************************************)
(* Initial state: the workbook on disk, nothing run yet                    *)
(***************************************************************************)
PatientRows ==
    [patient_id : PatientIdCells, first_name : FirstNameCells,
     last_name : LastNameCells, date_of_birth : DobCells]

\* Visits of patient 1 in every combination of the other cells, a visit
\* whose date does not parse, and a visit of the patient with the text id.
VisitRows ==
    [visit_id : VisitIdCells, patient_id : {"int:1"},
     provider_id : ProviderCells, visit_date : VisitDateCells,
     icd_code : IcdCells]
    \cup { [visit_id |-> "V1", patient_id |-> "int:1", provider_id |-> "P1",
            visit_date |-> BadDate, icd_code |-> "Z99"],
           [visit_id |-> "V1", patient_id |-> "str:1", provider_id |-> "P1",
            visit_date |-> 3, icd_code |-> " a01"] }

LabRows ==
    [visit_id : {"V1"}, test_name : TestNameCells,
     test_value : TestValueCells]

NoFile == <<>>

Init ==
    /\ pc = "ingest"
    /\ \E np \in 0..MaxRows, nv \in 0..MaxRows, nl \in 0..MaxRows :
          /\ np + nv + nl <= MaxRows
          /\ patients_df \in {Frame(s) : s \in [1..np -> PatientRows]}
          /\ visits_df \in {Frame(s) : s \in [1..nv -> VisitRows]}
          /\ labs_df \in {Frame(s) : s \in [1..nl -> LabRows]}
          /\ \/ /\ icd_df = UsualIcdSheet
                /\ visits_icd_col = "ICD_Code "
             \/ /\ np + nv + nl <= MaxConfigRows
                /\ icd_df \in IcdSheets
                /\ visits_icd_col \in VisitIcdHeaders
    /\ quarantine = [e \in {"patients", "visits", "labs"} |-> <<>>]
    /\ audit = <<>>
    /\ applied = <<>>
    /\ output = [emr |-> NoFile, quarantine |-> NoFile]
    /\ input = [patients |-> patients_df, visits |-> visits_df,
                labs |-> labs_df, icd |-> icd_df, visits_icd_col |-> visits_icd_col]

(***************************************************************************)
(* Ingestion and cleaning                                                  *)
(***************************************************************************)
Ingest ==
    /\ pc = "ingest"
    /\ audit' = audit_log(audit, "INGEST", "ALL", <<"Data loaded successfully">>)
    /\ pc' = "clean"
    /\ UNCHANGED <<patients_df, visits_df, labs_df, icd_df, visits_icd_col,
                   quarantine, applied, output, input>>

Cleaning ==
    /\ pc = "clean"
    /\ patients_df' =
          [i \in 1..Len(patients_df) |->
              [patients_df[i] EXCEPT
                  !.first_name = StripTitle(@),
                  !.last_name = StripTitle(@),
                  !.date_of_birth = ToDatetime(@)]]
    /\ visits_df' =
          [i \in 1..Len(visits_df) |->
              [visits_df[i] EXCEPT !.visit_date = ToDatetime(@)]]
    /\ labs_df' =
          [i \in 1..Len(labs_df) |->
              [labs_df[i] EXCEPT !.test_name = Upper(@)]]
    /\ pc' = "patients_not_null"
    /\ UNCHANGED <<icd_df, visits_icd_col, quarantine, audit, applied, output, input>>

(***************************************************************************)
(* Patient validations                                                     *)
(***************************************************************************)
PatientsNotNull ==
    /\ pc = "patients_not_null"
    /\ LET invalid == not_null_invalid(patients_df,
                         {"patient_id", "first_name", "last_name", "date_of_birth"})
           q2 == quarantine_concat(quarantine, invalid, "patients",
                                   "NULL_VIOLATION", "ERROR")
           df2 == quarantine_rows(patients_df, invalid)
       IN  /\ audit' = log_validation(audit, "patients", "NULL_VIOLATION",
                                      Len(invalid), "ERROR")
           /\ quarantine' = q2
           /\ patients_df' = df2
           /\ applied' = Applied(applied, "patients", "NULL_VIOLATION", "ERROR",
                                 patients_df, df2, quarantine, q2)
    /\ pc' = "patients_duplicate"
    /\ UNCHANGED <<visits_df, labs_df, icd_df, visits_icd_col, output, input>>

PatientsDuplicate ==
    /\ pc = "patients_duplicate"
    /\ LET invalid == duplicate_invalid(patients_df, {"patient_id"})
           q2 == quarantine_concat(quarantine, invalid, "patients",
                                   "DUPLICATE_RECORD", "ERROR")
           df2 == quarantine_rows(patients_df, invalid)
       IN  /\ audit' = log_validation(audit, "patients", "DUPLICATE_RECORD",
                                      Len(invalid), "ERROR")
           /\ quarantine' = q2
           /\ patients_df' = df2
           /\ applied' = Applied(applied, "patients", "DUPLICATE_RECORD", "ERROR",
                                 patients_df, df2, quarantine, q2)
    /\ pc' = "patients_dob"
    /\ UNCHANGED <<visits_df, labs_df, icd_df, visits_icd_col, output, input>>

PatientsDobInFuture ==
    /\ pc = "patients_dob"
    /\ LET future_dob == Filter(patients_df,
                                LAMBDA r : DateLt(Today, r.date_of_birth))
           q2 == quarantine_concat(quarantine, future_dob, "patients",
                                   "DOB_IN_FUTURE", "ERROR")
           df2 == quarantine_rows(patients_df, future_dob)
       IN  /\ audit' = log_validation(audit, "patients", "DOB_IN_FUTURE",
                                      Len(future_dob), "ERROR")
           /\ quarantine' = q2
           /\ patients_df' = df2
           /\ applied' = Applied(applied, "patients", "DOB_IN_FUTURE", "ERROR",
                                 patients_df, df2, quarantine, q2)
    /\ pc' = "visits_not_null"
    /\ UNCHANGED <<visits_df, labs_df, icd_df, visits_icd_col, output, input>>

(***************************************************************************)
(* Visit validations                                                       *)
(***************************************************************************)
VisitsNotNull ==
    /\ pc = "visits_not_null"
    /\ LET invalid == not_null_invalid(visits_df,
                         {"visit_id", "patient_id", "provider_id", "visit_date"})
           q2 == quarantine_concat(quarantine, invalid, "visits",
                                   "NULL_VIOLATION", "ERROR")
           df2 == quarantine_rows(visits_df, invalid)
       IN  /\ audit' = log_validation(audit, "visits", "NULL_VIOLATION",
                                      Len(invalid), "ERROR")
           /\ quarantine' = q2
           /\ visits_df' = df2
           /\ applied' = Applied(applied, "visits", "NULL_VIOLATION", "ERROR",
                                 visits_df, df2, quarantine, q2)
    /\ pc' = "visits_duplicate"
    /\ UNCHANGED <<patients_df, labs_df, icd_df, visits_icd_col, output, input>>

VisitsDuplicate ==
    /\ pc = "visits_duplicate"
    /\ LET invalid == duplicate_invalid(visits_df, {"visit_id"})
           q2 == quarantine_concat(quarantine, invalid, "visits",
                                   "DUPLICATE_RECORD", "ERROR")
           df2 == quarantine_rows(visits_df, invalid)
       IN  /\ audit' = log_validation(audit, "visits", "DUPLICATE_RECORD",
                                      Len(invalid), "ERROR")
           /\ quarantine' = q2
           /\ visits_df' = df2
           /\ applied' = Applied(applied, "visits", "DUPLICATE_RECORD", "ERROR",
                                 visits_df, df2, quarantine, q2)
    /\ pc' = "visits_before_dob"
    /\ UNCHANGED <<patients_df, labs_df, icd_df, visits_icd_col, output, input>>

\* The visits that fail VISIT_BEFORE_DOB, in the frame merged with the
\* patients' date_of_birth.
invalid_visits(merged) ==
    Filter(merged, LAMBDA r : DateLt(r.visit_date, r.date_of_birth))

VisitBeforeDob ==
    /\ pc = "visits_before_dob"
    /\ LET merged == MergeLeft(visits_df, patients_df, "patient_id",
                               {"date_of_birth"})
           invalid == invalid_visits(merged)
           q2 == quarantine_concat(quarantine, invalid, "visits",
                                   "VISIT_BEFORE_DOB", "ERROR")
           df2 == DropColumns(quarantine_rows(merged, invalid), {"date_of_birth"})
       IN  /\ audit' = log_validation(audit, "visits", "VISIT_BEFORE_DOB",
                                      Len(invalid), "ERROR")
           /\ quarantine' = q2
           /\ visits_df' = df2
           /\ applied' = Applied(applied, "visits", "VISIT_BEFORE_DOB", "ERROR",
                                 merged, df2, quarantine, q2)
    /\ pc' = "labs_not_null"
    /\ UNCHANGED <<patients_df, labs_df, icd_df, visits_icd_col, output, input>>

(***************************************************************************)
(* Lab validations                                                         *)
(***************************************************************************)
LabsNotNull ==
    /\ pc = "labs_not_null"
    /\ LET invalid == not_null_invalid(labs_df,
                         {"visit_id", "test_name", "test_value"})
           q2 == quarantine_concat(quarantine, invalid, "labs",
                                   "NULL_VIOLATION", "ERROR")
           df2 == quarantine_rows(labs_df, invalid)
       IN  /\ audit' = log_validation(audit, "labs", "NULL_VIOLATION",
                                      Len(invalid), "ERROR")
           /\ quarantine' = q2
           /\ labs_df' = df2
           /\ applied' = Applied(applied, "labs", "NULL_VIOLATION", "ERROR",
                                 labs_df, df2, quarantine, q2)
    /\ pc' = "labs_duplicate"
    /\ UNCHANGED <<patients_df, visits_df, icd_df, visits_icd_col, output, input>>

LabsDuplicate ==
    /\ pc = "labs_duplicate"
    /\ LET invalid == duplicate_invalid(labs_df, {"visit_id", "test_name"})
           q2 == quarantine_concat(quarantine, invalid, "labs",
                                   "DUPLICATE_RECORD", "ERROR")
           df2 == quarantine_rows(labs_df, invalid)
       IN  /\ audit' = log_validation(audit, "labs", "DUPLICATE_RECORD",
                                      Len(invalid), "ERROR")
           /\ quarantine' = q2
           /\ labs_df' = df2
           /\ applied' = Applied(applied, "labs", "DUPLICATE_RECORD", "ERROR",
                                 labs_df, df2, quarantine, q2)
    /\ pc' = "labs_orphan"
    /\ UNCHANGED <<patients_df, visits_df, icd_df, visits_icd_col, output, input>>

\* orphan_labs against the visits as read, before their validation.
orphan_labs_unvalidated(labs, visits) ==
    Filter(labs, LAMBDA r :
                   r.visit_id \notin
                      {input.visits[i].visit_id : i \in 1..Len(input.visits)})

\* The labs whose visit_id is no visit_id of the visits frame.
orphan_labs(labs, visits) ==
    Filter(labs, LAMBDA r :
                   r.visit_id \notin {visits[i].visit_id : i \in 1..Len(visits)})

LabsOrphan ==
    /\ pc = "labs_orphan"
    /\ LET invalid == orphan_labs(labs_df, visits_df)
           q2 == quarantine_concat(quarantine, invalid, "labs",
                                   "ORPHAN_VISIT_ID", "ERROR")
           df2 == quarantine_rows(labs_df, invalid)
       IN  /\ audit' = log_validation(audit, "labs", "ORPHAN_VISIT_ID",
                                      Len(invalid), "ERROR")
           /\ quarantine' = q2
           /\ labs_df' = df2
           /\ applied' = Applied(applied, "labs", "ORPHAN_VISIT_ID", "ERROR",
                                 labs_df, df2, quarantine, q2)
    /\ pc' = "icd_reference"
    /\ UNCHANGED <<patients_df, visits_df, icd_df, visits_icd_col, output, input>>

(***************************************************************************)
(* ICD validation (WARN)                                                   *)
(***************************************************************************)
ICD_CODE_CANDIDATES ==
    <<"code", "icd", "icd_code", "icd10", "diagnosis_code", "diag_code",
      "diagnosis">>

None == "<None>"

\* find_icd_column falling back on the first column.
find_icd_column_fallback(columns) ==
    LET hits == SelectSeq(ICD_CODE_CANDIDATES, LAMBDA c : c \in Range(columns))
    IN  IF Len(hits) = 0 THEN columns[1] ELSE Head(hits)

\* find_icd_column: the first candidate that is a column, else None.
find_icd_column(columns) ==
    LET hits == SelectSeq(ICD_CODE_CANDIDATES, LAMBDA c : c \in Range(columns))
    IN  IF Len(hits) = 0 THEN None ELSE Head(hits)

NormalizedColumns(columns) ==
    [i \in 1..Len(columns) |-> StripLower(columns[i])]

\* The position of the column named name.
ColumnAt(columns, name) ==
    CHOOSE i \in 1..Len(columns) : columns[i] = name

\* The cells of the reference frame's code column.
IcdCodes(df) ==
    {df.rows[i][ColumnAt(df.columns, "code")] : i \in 1..Len(df.rows)}

\* The reference sheet has a code column: it is renamed and normalized.
IcdReference ==
    /\ pc = "icd_reference"
    /\ LET columns == NormalizedColumns(icd_df.columns)
           icd_code_col == find_icd_column(columns)
           k == ColumnAt(columns, icd_code_col)
       IN  /\ icd_code_col # None
           /\ icd_df' =
                 [columns |-> [columns EXCEPT ![k] = "code"],
                  rows |-> [i \in 1..Len(icd_df.rows) |->
                               [icd_df.rows[i] EXCEPT ![k] = StripUpper(@)]]]
    /\ visits_icd_col' = StripLower(visits_icd_col)
    /\ pc' = "icd_visits"
    /\ UNCHANGED <<patients_df, visits_df, labs_df, quarantine, audit, applied,
                   output, input>>

\* The reference sheet has no code column: ValueError.
IcdReferenceMissing ==
    /\ pc = "icd_reference"
    /\ find_icd_column(NormalizedColumns(icd_df.columns)) = None
    /\ icd_df' = [icd_df EXCEPT !.columns = NormalizedColumns(@)]
    /\ visits_icd_col' = StripLower(visits_icd_col)
    /\ pc' = "failed"
    /\ UNCHANGED <<patients_df, visits_df, labs_df, quarantine, audit, applied,
                   output, input>>

\* The visits have an icd_code column: its cells are normalized.
VisitsIcd ==
    /\ pc = "icd_visits"
    /\ visits_icd_col = "icd_code"
    /\ visits_df' =
          [i \in 1..Len(visits_df) |->
              [visits_df[i] EXCEPT !.icd_code = StripUpper(@)]]
    /\ pc' = "icd_validation"
    /\ UNCHANGED <<patients_df, labs_df, icd_df, visits_icd_col, quarantine,
                   audit, applied, output, input>>

\* The visits have no icd_code column: ValueError.
VisitsIcdMissing ==
    /\ pc = "icd_visits"
    /\ visits_icd_col # "icd_code"
    /\ pc' = "failed"
    /\ UNCHANGED <<patients_df, visits_df, labs_df, icd_df, visits_icd_col,
                   quarantine, audit, applied, output, input>>

\* invalid_icd over the visits as read, not the ones the ERROR rules left.
invalid_icd_unnarrowed(visits, icd) ==
    Filter([i \in 1..Len(input.visits) |->
               [input.visits[i] EXCEPT !.icd_code = StripUpper(@)]],
           LAMBDA r : r.icd_code \notin IcdCodes(icd))

\* The visits whose code is no code of the reference frame.
invalid_icd(visits, icd) ==
    Filter(visits, LAMBDA r : r.icd_code \notin IcdCodes(icd))

\* The flag set, and the rows flagged false dropped as an ERROR rule would.
icd_flagged_dropping(visits, icd) ==
    Filter([i \in 1..Len(visits) |->
               visits[i] @@ [icd_valid_flag |->
                                visits[i].icd_code \in IcdCodes(icd)]],
           LAMBDA r : r.icd_valid_flag)

\* visits_df["icd_valid_flag"] = visits_df["icd_code"].isin(icd_df["code"])
icd_flagged(visits, icd) ==
    [i \in 1..Len(visits) |->
        visits[i] @@ [icd_valid_flag |-> visits[i].icd_code \in IcdCodes(icd)]]

\* The WARN records are appended to the quarantine of the visits.
warn_concat(q, invalid) ==
    IF Len(invalid) # 0
    THEN LET temp == [i \in 1..Len(invalid) |->
                         invalid[i] @@ [quarantine_rule |-> "INVALID_ICD_CODE",
                                        severity |-> "WARN"]]
         IN  [q EXCEPT !["visits"] = Concat(@, temp)]
    ELSE q

IcdValidation ==
    /\ pc = "icd_validation"
    /\ LET invalid == invalid_icd(visits_df, icd_df)
           q2 == warn_concat(quarantine, invalid)
           df2 == icd_flagged(visits_df, icd_df)
       IN  /\ audit' = log_validation(audit, "visits", "INVALID_ICD_CODE",
                                      Len(invalid), "WARN")
           /\ visits_df' = df2
           /\ quarantine' = q2
           /\ applied' = Applied(applied, "visits", "INVALID_ICD_CODE", "WARN",
                                 visits_df, df2, quarantine, q2)
    /\ pc' = "masking"
    /\ UNCHANGED <<patients_df, labs_df, icd_df, visits_icd_col, output, input>>

(***************************************************************************)
(* PHI masking                                                             *)
(***************************************************************************)
patient_id_hash(x) == Sha256(Str(x))

Masking ==
    /\ pc = "masking"
    /\ LET masked == [i \in 1..Len(patients_df) |->
                         [patients_df[i] EXCEPT !.first_name = MaskName(@),
                                                !.last_name = MaskName(@)]
                         @@ [patient_id_hash |->
                                patient_id_hash(patients_df[i].patient_id)]]
           visits2 == DropColumns(
                          MergeLeft(visits_df, masked, "patient_id",
                                    {"patient_id_hash"}),
                          {"patient_id"})
       IN  /\ patients_df' = masked
           /\ visits_df' = visits2
           /\ labs_df' = MergeLeft(labs_df, visits2, "visit_id",
                                   {"patient_id_hash"})
    /\ pc' = "export"
    /\ UNCHANGED <<icd_df, visits_icd_col, quarantine, audit, applied, output, input>>

(***************************************************************************)
(* Dimensions, facts, analytics and output                                 *)
(***************************************************************************)
dim_patient(patients) ==
    [i \in 1..Len(patients) |->
        [c \in {"rid", "patient_id_hash", "first_name", "last_name",
                "date_of_birth"} |-> patients[i][c]]
        @@ [effective_from |-> Today, is_current |-> TRUE]]

\* visits_df[["provider_id"]].drop_duplicates(): first occurrences.
dim_provider(visits) ==
    FilterPos([i \in 1..Len(visits) |-> visits[i].provider_id],
              LAMBDA i : \A j \in 1..(i - 1) :
                             visits[j].provider_id # visits[i].provider_id)

\* icd_df.rename(columns={"code": "icd_code", "description": "icd_description"})
dim_icd(icd) ==
    [icd EXCEPT !.columns =
        [i \in 1..Len(@) |->
            CASE @[i] = "code" -> "icd_code"
              [] @[i] = "description" -> "icd_description"
              [] OTHER -> @[i]]]

\* groupby(column) with the size of each group.
GroupCount(df, column) ==
    [v \in {df[i][column] : i \in 1..Len(df)} |->
        Cardinality({i \in 1..Len(df) : df[i][column] = v})]

Export ==
    /\ pc = "export"
    /\ output' = [output EXCEPT !.emr =
          << [dim_patient |-> dim_patient(patients_df),
              dim_provider |-> dim_provider(visits_df),
              dim_icd |-> dim_icd(icd_df),
              fact_visit |-> visits_df,
              fact_lab |-> labs_df,
              provider_metrics |-> GroupCount(visits_df, "provider_id"),
              diagnosis_metrics |-> GroupCount(visits_df, "icd_code")] >>]
    /\ audit' = audit_log(audit, "EXPORT", "EMR_OUTPUT",
                          <<"outputs/gohealth_emr_output.xlsx">>)
    /\ pc' = "export_quarantine"
    /\ UNCHANGED <<patients_df, visits_df, labs_df, icd_df, visits_icd_col,
                   quarantine, applied, input>>

\* The entities whose quarantine gets a sheet: the non-empty ones.
QuarantineSheets == {e \in DOMAIN quarantine : Len(quarantine[e]) # 0}

ExportQuarantine ==
    /\ pc = "export_quarantine"
    /\ output' = [output EXCEPT !.quarantine =
          << [e \in QuarantineSheets |-> quarantine[e]] >>]
    /\ audit' = audit_log(audit, "EXPORT", "QUARANTINE_OUTPUT",
                          <<"gohealth_emr_quarantine.xlsx">>)
    /\ pc' = "done"
    /\ UNCHANGED <<patients_df, visits_df, labs_df, icd_df, visits_icd_col,
                   quarantine, applied, input>>

\* A workbook without any sheet: the writer of an engine that refuses to
\* save it raises when the with-block closes.
ExportQuarantineNoSheet ==
    /\ pc = "export_quarantine"
    /\ QuarantineSheets = {}
    /\ pc' = "failed"
    /\ UNCHANGED <<patients_df, visits_df, labs_df, icd_df, visits_icd_col,
                   quarantine, audit, applied, output, input>>

Next ==
    \/ Ingest
    \/ Cleaning
    \/ PatientsNotNull
    \/ PatientsDuplicate
    \/ PatientsDobInFuture
    \/ VisitsNotNull
    \/ VisitsDuplicate
    \/ VisitBeforeDob
    \/ LabsNotNull
    \/ LabsDuplicate
    \/ LabsOrphan
    \/ IcdReference
    \/ IcdReferenceMissing
    \/ VisitsIcd
    \/ VisitsIcdMissing
    \/ IcdValidation
    \/ Masking
    \/ Export
    \/ ExportQuarantine
    \/ ExportQuarantineNoSheet

Spec == Init /\ [][Next]_vars

(***************************************************************************)
(* Vocabulary of the properties                                            *)
(***************************************************************************)
Entities == {"patients", "visits", "labs"}

Rids(df) == {df[i].rid : i \in 1..Len(df)}

\* The clean frame of an entity in the current state.
Clean(e) ==
    CASE e = "patients" -> patients_df
      [] e = "visits" -> visits_df
      [] e = "labs" -> labs_df

\* The positions of an entity's quarantine records under a rule, of a
\* severity, and from input row rid.
UnderRule(e, rule) ==
    {i \in 1..Len(quarantine[e]) : quarantine[e][i].quarantine_rule = rule}

OfSeverity(e, severity) ==
    {i \in 1..Len(quarantine[e]) : quarantine[e][i].severity = severity}

RecordsOf(e, rid) ==
    {i \in 1..Len(quarantine[e]) : quarantine[e][i].rid = rid}

\* The input rows that have a record at one of these positions.
RidsAt(e, positions) == {quarantine[e][i].rid : i \in positions}

AfterValidation == pc \in {"masking", "export", "export_quarantine", "done"}

(***************************************************************************)
(* C1  Dependency-order cascade                                            *)
(***************************************************************************)
\* C1: when the run is done, every visit whose patient_id is the key of a
\* patient removed by a patient rule (and of no clean patient) is in the
\* visits quarantine under an ERROR rule and absent from the clean visits,
\* and every lab referencing such a visit is in the labs quarantine and
\* absent from the clean labs.
C1_DependencyCascade ==
    pc = "done" =>
        \A k \in 1..Len(input.visits) :
            LET v == input.visits[k]
            IN  ( /\ \E i \in 1..Len(quarantine["patients"]) :
                         quarantine["patients"][i].patient_id = v.patient_id
                  /\ \A i \in 1..Len(patients_df) :
                         patients_df[i].patient_id # v.patient_id )
                => /\ v.rid \notin Rids(output.emr[1].fact_visit)
                   /\ v.rid \in RidsAt("visits", OfSeverity("visits", "ERROR"))
                   /\ \A j \in 1..Len(input.labs) :
                          input.labs[j].visit_id = v.visit_id
                          => /\ input.labs[j].rid
                                   \notin Rids(output.emr[1].fact_lab)
                             /\ input.labs[j].rid \in Rids(quarantine["labs"])

(***************************************************************************)
(* C2  Partition completeness                                              *)
(***************************************************************************)
\* C2 as stated: for every rule application, the WARN rule included, the
\* clean rows after the rule plus the rows the rule quarantined are the
\* clean rows before it.
C2_PartitionEveryRule ==
    \A i \in 1..Len(applied) :
        applied[i].after + applied[i].quarantined = applied[i].before

\* C2 amended: the count is kept by each of the nine ERROR rule
\* applications; the WARN rule leaves the clean set as long as it was and
\* adds to the quarantine one record per visit it flags false.
C2_PartitionErrorRules ==
    /\ \A i \in 1..Len(applied) :
          /\ applied[i].severity = "ERROR"
             => applied[i].after + applied[i].quarantined = applied[i].before
          /\ applied[i].severity = "WARN"
             => applied[i].after = applied[i].before
    /\ AfterValidation =>
          applied[10].quarantined =
              Cardinality({i \in 1..Len(visits_df) : ~visits_df[i].icd_valid_flag})

C2_Witness ==
    /\ pc = "done"
    /\ \E i \in 1..Len(applied) :
          applied[i].severity = "ERROR" /\ applied[i].quarantined > 0
    /\ applied[10].quarantined > 0

(***************************************************************************)
(* C3  At-most-once quarantine                                             *)
(***************************************************************************)
\* C3: no input row of an entity has more than one record in that entity's
\* quarantine, and a row an ERROR rule rejected is in no later frame.
C3_AtMostOnce ==
    \A e \in Entities :
        /\ \A i, j \in 1..Len(quarantine[e]) :
              quarantine[e][i].rid = quarantine[e][j].rid => i = j
        /\ RidsAt(e, OfSeverity(e, "ERROR")) \cap Rids(Clean(e)) = {}

C3_Witness ==
    /\ pc = "done"
    /\ OfSeverity("visits", "ERROR") # {}
    /\ OfSeverity("visits", "WARN") # {}

(***************************************************************************)
(* C4  WARN non-exclusion                                                  *)
(***************************************************************************)
\* The normalized codes of the reference sheet as it was read.
Vocabulary ==
    LET k == CHOOSE i \in 1..Len(input.icd.columns) :
                 StripLower(input.icd.columns[i]) \in Range(ICD_CODE_CANDIDATES)
    IN  {StripUpper(input.icd.rows[i][k]) : i \in 1..Len(input.icd.rows)}

\* C4: once the WARN rule has run, every visit no ERROR rule rejected is in
\* the clean visits exactly once; when its normalized code is outside the
\* normalized vocabulary it is flagged false and has exactly one quarantine
\* record, tagged INVALID_ICD_CODE / WARN; otherwise it is flagged true and
\* has no quarantine record.  When the run is done the clean visits are the
\* exported fact_visit.
C4_WarnNonExclusion ==
    AfterValidation =>
        /\ \A k \in 1..Len(input.visits) :
              LET v == input.visits[k]
                  at == {i \in 1..Len(visits_df) : visits_df[i].rid = v.rid}
                  recs == RecordsOf("visits", v.rid)
              IN  v.rid \notin RidsAt("visits", OfSeverity("visits", "ERROR"))
                  => /\ Cardinality(at) = 1
                     /\ \A i \in at :
                           IF StripUpper(v.icd_code) \notin Vocabulary
                           THEN /\ visits_df[i].icd_valid_flag = FALSE
                                /\ Cardinality(recs) = 1
                                /\ recs \subseteq
                                      UnderRule("visits", "INVALID_ICD_CODE")
                                /\ recs \subseteq OfSeverity("visits", "WARN")
                           ELSE /\ visits_df[i].icd_valid_flag = TRUE
                                /\ recs = {}
        /\ pc = "done" => output.emr[1].fact_visit = visits_df

C4_Witness ==
    /\ pc = "done"
    /\ \E i \in 1..Len(output.emr[1].fact_visit) :
          output.emr[1].fact_visit[i].icd_valid_flag = FALSE
    /\ \E i \in 1..Len(output.emr[1].fact_visit) :
          output.emr[1].fact_visit[i].icd_valid_flag = TRUE

(***************************************************************************)
(* C5  Duplicate check on the narrowed set                                 *)
(***************************************************************************)
KeyColumns(e) ==
    CASE e = "patients" -> {"patient_id"}
      [] e = "visits" -> {"visit_id"}
      [] e = "labs" -> {"visit_id", "test_name"}

SameKey(e, a, b) == \A c \in KeyColumns(e) : a[c] = b[c]

DuplicateCheckDone(e) ==
    CASE e = "patients" ->
            pc \notin {"ingest", "clean", "patients_not_null", "patients_duplicate"}
      [] e = "visits" ->
            pc \notin {"ingest", "clean", "patients_not_null", "patients_duplicate",
                       "patients_dob", "visits_not_null", "visits_duplicate"}
      [] e = "labs" ->
            pc \notin {"ingest", "clean", "patients_not_null", "patients_duplicate",
                       "patients_dob", "visits_not_null", "visits_duplicate",
                       "visits_before_dob", "labs_not_null", "labs_duplicate"}

\* The rows of an entity that passed its not-null check: the clean ones,
\* then the ones in a quarantine record of another rule.
SurvivedNotNull(e) ==
    Clean(e) \o SelectSeq(quarantine[e],
                          LAMBDA q : q.quarantine_rule # "NULL_VIOLATION")

\* C5: after an entity's duplicate check, the rows quarantined under
\* DUPLICATE_RECORD are exactly the rows that passed the not-null check and
\* share their key with another row that passed it, and the key is unique
\* among the clean rows.
C5_DuplicateOnNarrowedSet ==
    \A e \in Entities :
        DuplicateCheckDone(e) =>
            LET S == SurvivedNotNull(e)
            IN  /\ RidsAt(e, UnderRule(e, "DUPLICATE_RECORD"))
                      = {S[i].rid : i \in {x \in 1..Len(S) :
                            \E y \in 1..Len(S) :
                                S[y].rid # S[x].rid /\ SameKey(e, S[x], S[y])}}
                /\ \A i, j \in 1..Len(Clean(e)) :
                      SameKey(e, Clean(e)[i], Clean(e)[j]) => i = j

\* A patient removed by NULL_VIOLATION shares its key with a patient that
\* stayed clean through the duplicate check.
C5_Witness ==
    /\ pc = "labs_not_null"
    /\ \E i \in UnderRule("patients", "NULL_VIOLATION") :
          \E j \in 1..Len(patients_df) :
             patients_df[j].patient_id = quarantine["patients"][i].patient_id
    /\ UnderRule("patients", "DUPLICATE_RECORD") = {}

(***************************************************************************)
(* C6  Decision log per rule invocation                                    *)
(***************************************************************************)
RuleOrder ==
    << <<"patients", "NULL_VIOLATION", "ERROR">>,
       <<"patients", "DUPLICATE_RECORD", "ERROR">>,
       <<"patients", "DOB_IN_FUTURE", "ERROR">>,
       <<"visits", "NULL_VIOLATION", "ERROR">>,
       <<"visits", "DUPLICATE_RECORD", "ERROR">>,
       <<"visits", "VISIT_BEFORE_DOB", "ERROR">>,
       <<"labs", "NULL_VIOLATION", "ERROR">>,
       <<"labs", "DUPLICATE_RECORD", "ERROR">>,
       <<"labs", "ORPHAN_VISIT_ID", "ERROR">>,
       <<"visits", "INVALID_ICD_CODE", "WARN">> >>

\* The positions of the log's entries of an action.
LogPositions(action) == {i \in 1..Len(audit) : audit[i].action = action}

\* The rule invocations made so far, by the block that runs next.
InvocationsBefore ==
    CASE pc \in {"ingest", "clean", "patients_not_null"} -> 0
      [] pc = "patients_duplicate" -> 1
      [] pc = "patients_dob" -> 2
      [] pc = "visits_not_null" -> 3
      [] pc = "visits_duplicate" -> 4
      [] pc = "visits_before_dob" -> 5
      [] pc = "labs_not_null" -> 6
      [] pc = "labs_duplicate" -> 7
      [] pc = "labs_orphan" -> 8
      [] pc \in {"icd_reference", "icd_visits", "icd_validation"} -> 9
      [] pc = "failed" -> Len(applied)
      [] OTHER -> 10

LogShape ==
    LET V == SelectSeq(audit, LAMBDA x : x.action = "VALIDATION")
    IN  /\ Len(V) = InvocationsBefore
        /\ Len(V) = Len(applied)
        /\ \A i \in 1..Len(V) :
              /\ V[i].entity = RuleOrder[i][1]
              /\ V[i].details[1] = RuleOrder[i][2]
              /\ V[i].details[2] = applied[i].quarantined
              /\ V[i].details[3] = RuleOrder[i][3]
        /\ \A i \in LogPositions("VALIDATION") :
              /\ LogPositions("INGEST") = {1}
              /\ \A j \in LogPositions("EXPORT") : i < j
        /\ LogPositions("EXPORT") # {} => Len(V) = 10

\* C6: the log holds one VALIDATION entry per rule invocation made, in the
\* fixed order, each with the number of rows the invocation quarantined
\* (zero too), after the INGEST entry and before any EXPORT entry; and a
\* step only appends to the log.
C6_DecisionLog ==
    /\ [] LogShape
    /\ [][ /\ Len(audit') >= Len(audit)
           /\ SubSeq(audit', 1, Len(audit)) = audit ]_vars

C6_Witness ==
    /\ pc = "done"
    /\ \E i \in 1..Len(applied) : applied[i].quarantined = 0
    /\ \E i \in 1..Len(applied) : applied[i].quarantined > 0

(***************************************************************************)
(* C7  Configuration failure aborts without export                         *)
(***************************************************************************)
\* The reference sheet as read has no header that normalizes to a candidate
\* name, or the visits' diagnosis header does not normalize to icd_code.
ConfigurationFailure ==
    \/ \A i \in 1..Len(input.icd.columns) :
           StripLower(input.icd.columns[i]) \notin Range(ICD_CODE_CANDIDATES)
    \/ StripLower(input.visits_icd_col) # "icd_code"

\* C7: a run with a configuration failure never passes the ICD block: it
\* quarantines no row under the ICD rule, logs no EXPORT entry and writes
\* neither output.
C7_ConfigurationAborts ==
    ConfigurationFailure =>
        /\ pc \notin {"icd_validation", "masking", "export",
                      "export_quarantine", "done"}
        /\ UnderRule("visits", "INVALID_ICD_CODE") = {}
        /\ LogPositions("EXPORT") = {}
        /\ output = [emr |-> NoFile, quarantine |-> NoFile]

\* The run has failed on its configuration with a row in a quarantine.
C7_Witness ==
    /\ pc = "failed"
    /\ ConfigurationFailure
    /\ \E e \in Entities : Len(quarantine[e]) > 0

(***************************************************************************)
(* C8  Clean / quarantine overlap                                          *)
(***************************************************************************)
\* C8 as stated: a run never completes with a row both in the clean set and
\* in the quarantine of the same entity.
C8_NoOverlapAtAll ==
    pc = "done" =>
        \A e \in Entities : Rids(Clean(e)) \cap Rids(quarantine[e]) = {}

\* C8 amended: in every state no row is both in the clean set of an entity
\* and in an ERROR record of its quarantine; the rows in both are the visits
\* with a WARN record, and these are the clean visits flagged false.
C8_NoErrorOverlap ==
    /\ \A e \in Entities :
          Rids(Clean(e)) \cap RidsAt(e, OfSeverity(e, "ERROR")) = {}
    /\ \A e \in Entities \ {"visits"} : OfSeverity(e, "WARN") = {}
    /\ AfterValidation =>
          RidsAt("visits", OfSeverity("visits", "WARN"))
             = {visits_df[i].rid : i \in {x \in 1..Len(visits_df) :
                                            ~visits_df[x].icd_valid_flag}}

C8_Witness ==
    /\ pc = "done"
    /\ Rids(visits_df) \cap Rids(quarantine["visits"]) # {}
    /\ OfSeverity("visits", "ERROR") # {}

(***************************************************************************)
(* C9  Masking key collision                                               *)
(***************************************************************************)
\* The first half of C9: a clean visit carries the patient_id_hash of the
\* clean patient it references, and a clean lab that of its visit.
C9_SameKeySameMask ==
    pc = "done" =>
        /\ \A i \in 1..Len(output.emr[1].fact_visit) :
              \A j \in 1..Len(patients_df) :
                 (\E k \in 1..Len(input.visits) :
                      /\ input.visits[k].rid = output.emr[1].fact_visit[i].rid
                      /\ input.visits[k].patient_id = patients_df[j].patient_id)
                 => output.emr[1].fact_visit[i].patient_id_hash
                       = patients_df[j].patient_id_hash
        /\ \A i \in 1..Len(output.emr[1].fact_lab) :
              \A j \in 1..Len(output.emr[1].fact_visit) :
                 output.emr[1].fact_lab[i].visit_id
                    = output.emr[1].fact_visit[j].visit_id
                 => output.emr[1].fact_lab[i].patient_id_hash
                       = output.emr[1].fact_visit[j].patient_id_hash

\* C9: a run is never done with two clean patients of distinct patient_id
\* under one patient_id_hash, and the same key is masked alike everywhere.
C9_CollisionIsFatal ==
    /\ C9_SameKeySameMask
    /\ pc = "done" =>
          \A i, j \in 1..Len(patients_df) :
              patients_df[i].patient_id # patients_df[j].patient_id
              => patients_df[i].patient_id_hash # patients_df[j].patient_id_hash

(***************************************************************************)
(* C10  Lab referential integrity                                          *)
(***************************************************************************)
LabsOrphanDone ==
    pc \in {"icd_reference", "icd_visits", "icd_validation", "masking",
            "export", "export_quarantine", "done", "failed"}

VisitIds(df) == {df[i].visit_id : i \in 1..Len(df)}

\* C10: once ORPHAN_VISIT_ID has run, every clean lab has the visit_id of a
\* clean visit; every lab that passed the labs' not-null and duplicate
\* checks and has the visit_id of no clean visit is in the labs quarantine
\* under ORPHAN_VISIT_ID / ERROR, and no other lab is; when the run is done
\* the same holds of the exported fact_lab and fact_visit.
C10_LabReferentialIntegrity ==
    /\ LabsOrphanDone =>
          /\ VisitIds(labs_df) \subseteq VisitIds(visits_df)
          /\ \A k \in 1..Len(input.labs) :
                (input.labs[k].rid
                    \in RidsAt("labs", UnderRule("labs", "ORPHAN_VISIT_ID")))
                <=> /\ input.labs[k].rid \notin
                          RidsAt("labs", UnderRule("labs", "NULL_VIOLATION")
                                 \cup UnderRule("labs", "DUPLICATE_RECORD"))
                    /\ input.labs[k].visit_id \notin VisitIds(visits_df)
          /\ UnderRule("labs", "ORPHAN_VISIT_ID") \subseteq OfSeverity("labs", "ERROR")
    /\ pc = "done" =>
          VisitIds(output.emr[1].fact_lab) \subseteq VisitIds(output.emr[1].fact_visit)

\* A lab is an orphan because an ERROR rule removed the visit it references.
C10_Witness ==
    /\ pc = "done"
    /\ \E i \in UnderRule("labs", "ORPHAN_VISIT_ID") :
          \E j \in OfSeverity("visits", "ERROR") :
             quarantine["visits"][j].visit_id = quarantine["labs"][i].visit_id

====
